---------------------------- MODULE Spec2Model ----------------------------
(***************************************************************************)
(* A model of sudoku_solver.py: the candidate-set grid, the propagation    *)
(* rules eliminate / only_choice / naked_twins, the fixed-point loop       *)
(* reduce_puzzle, the recursive search, and the entry point solve.         *)
(*                                                                         *)
(* A box 'A1'..'I9' is the pair <<row, col>> with the row letter replaced  *)
(* by its position in 'ABCDEFGHI'; a candidate string such as '1379' is    *)
(* the set {1,3,7,9} (the code only ever removes characters from           *)
(* '123456789', so a candidate string is always ascending and duplicate    *)
(* free, and iterating over it is iterating over the set in ascending      *)
(* order).  Dictionaries are mutable objects: they live in a heap and are  *)
(* named by references, so that aliasing and dict.copy() are visible.      *)
(* The write-only debugging log `assignments` is not part of the model.    *)
(***************************************************************************)
EXTENDS Integers, Sequences, FiniteSets, TLC

---------------------------------------------------------------------------
(* Topology (module level globals of the program).                         *)

NumDigits == 9
BoxWidth == 3
InputLen == 81

rows == [i \in 1..NumDigits |-> i]
cols == [i \in 1..NumDigits |-> i]
digits == <<"1", "2", "3", "4", "5", "6", "7", "8", "9">>

cross(A, B) ==
    [i \in 1..(Len(A) * Len(B)) |->
        <<A[((i - 1) \div Len(B)) + 1], B[((i - 1) % Len(B)) + 1]>>]

boxes == cross(rows, cols)

BoxSet == {boxes[i] : i \in 1..Len(boxes)}

row_units == [r \in 1..Len(rows) |-> cross(<<rows[r]>>, cols)]

column_units == [c \in 1..Len(cols) |-> cross(rows, <<cols[c]>>)]

Band(k) == [i \in 1..BoxWidth |-> BoxWidth * (k - 1) + i]

square_units ==
    [k \in 1..NumDigits |->
        cross(Band(((k - 1) \div BoxWidth) + 1), Band(((k - 1) % BoxWidth) + 1))]

unit_list == row_units \o column_units \o square_units

Cells(unit) == {unit[i] : i \in 1..Len(unit)}

units == [s \in BoxSet |-> {u \in 1..Len(unit_list) : s \in Cells(unit_list[u])}]

peers == [s \in BoxSet |-> (UNION {Cells(unit_list[u]) : u \in units[s]}) \ {s}]

---------------------------------------------------------------------------
(* Grid helpers.                                                           *)

Max(S) == CHOOSE x \in S : \A y \in S : y <= x

NumSolved(grid_dict) == Cardinality({b \in BoxSet : Cardinality(grid_dict[b]) = 1})

(* the dictionaries of the program: a candidate set for every box *)
Grids == [BoxSet -> SUBSET (1..NumDigits)]

(* len(d) of a dictionary *)
Entries(d) == Cardinality(DOMAIN d)

assign_value(values, box, value) == [values EXCEPT ![box] = value]

(* sudoku_input_string_to_grid_dict: a digit contributes itself, '.' the    *)
(* full candidate string, any other character nothing; zip pairs the board *)
(* with boxes and stops at the shorter of the two.                         *)
InDigits(val) == \E d \in 1..NumDigits : digits[d] = val

Appends(val) == InDigits(val) \/ val = "."

BoardOf[appended \in Seq(STRING)] ==
    [k \in 1..Len(appended) |->
        IF InDigits(appended[k])
           THEN {CHOOSE d \in 1..NumDigits : digits[d] = appended[k]}
           ELSE 1..NumDigits]

Board(grid) == BoardOf[SelectSeq(grid, Appends)]

(* the position of a box in boxes *)
IndexOf(box) == (box[1] - 1) * Len(cols) + box[2]

(* dict(zip(boxes, board)) *)
Zip[board \in Seq(SUBSET (1..NumDigits))] ==
    [b \in {boxes[i] : i \in 1..(IF Len(board) < Len(boxes) THEN Len(board) ELSE Len(boxes))}
        |-> board[IndexOf(b)]]

sudoku_input_string_to_grid_dict(grid) == Zip[Board(grid)]

(* eliminate: the entries are visited in dictionary order, which is the     *)
(* order of boxes, and every visit reads the peers' current values, so the *)
(* pass is a fold over the entries lo..hi.  The folds are functions, so    *)
(* that every intermediate dictionary is a value before the next step      *)
(* reads it, and split their range in halves, first half first.            *)
(* eliminate that leaves a box alone once it holds a single digit *)
EliminateBoxSkipSolved(grid_dict, box) ==
    LET solved_peers == {p \in peers[box] : Cardinality(grid_dict[p]) = 1}
        value == IF Cardinality(grid_dict[box]) = 1
                    THEN grid_dict[box]
                    ELSE grid_dict[box] \ UNION {grid_dict[p] : p \in solved_peers}
    IN  assign_value(grid_dict, box, value)

EliminateBox(grid_dict, box) ==
    LET solved_peers == {p \in peers[box] : Cardinality(grid_dict[p]) = 1}
        value == grid_dict[box] \ UNION {grid_dict[p] : p \in solved_peers}
    IN  assign_value(grid_dict, box, value)

EliminateEntries[grid_dict \in Grids, lo \in Nat, hi \in Nat] ==
    IF lo > hi THEN grid_dict
    ELSE IF lo = hi THEN EliminateBox(grid_dict, boxes[lo])
    ELSE EliminateEntries[EliminateEntries[grid_dict, lo, (lo + hi) \div 2],
                          ((lo + hi) \div 2) + 1, hi]

eliminate(grid_dict) == EliminateEntries[grid_dict, 1, Entries(grid_dict)]

(* only_choice: per unit, the digits listed by exactly one box of the unit *)
(* (occurs_only_once after the first loop); then every box of the unit is  *)
(* assigned each such digit it lists, in ascending order, so the largest   *)
(* one stays.                                                              *)
OccursOnlyOnce(values, unit) ==
    {d \in 1..NumDigits :
        Cardinality({i \in 1..Len(unit) : d \in values[unit[i]]}) = 1}

(* one pass of the inner loop of lines 165-168 for a box *)
AssignOnlyChoice(values, box, occurs_only_once) ==
    LET mine == values[box] \cap occurs_only_once
    IN  IF mine = {} THEN values ELSE assign_value(values, box, {Max(mine)})

(* the second loop over unit u (lines 165-168), from its k-th box on *)
AssignOnlyChoices[values \in Grids, u \in Nat, occurs_only_once \in SUBSET (1..NumDigits), k \in Nat] ==
    IF k > Len(unit_list[u]) THEN values
    ELSE AssignOnlyChoices[AssignOnlyChoice(values, unit_list[u][k], occurs_only_once),
                           u, occurs_only_once, k + 1]

OnlyChoiceUnit(values, u) ==
    AssignOnlyChoices[values, u, OccursOnlyOnce(values, unit_list[u]), 1]

(* `for unit in unit_list`, units lo..hi in order *)
OnlyChoiceUnits[values \in Grids, lo \in Nat, hi \in Nat] ==
    IF lo > hi THEN values
    ELSE IF lo = hi THEN OnlyChoiceUnit(values, lo)
    ELSE OnlyChoiceUnits[OnlyChoiceUnits[values, lo, (lo + hi) \div 2],
                         ((lo + hi) \div 2) + 1, hi]

only_choice(values) == OnlyChoiceUnits[values, 1, Len(unit_list)]

EmptyBoxes(grid_dict) == {b \in DOMAIN grid_dict : grid_dict[b] = {}}

grid_is_solved(grid_dict) == \A b \in DOMAIN grid_dict : Cardinality(grid_dict[b]) = 1


---------------------------------------------------------------------------
(* naked_twins.  Counter(...).items() lists the 2-candidate values that    *)
(* occur more than once in the unit, in the order of their first           *)
(* occurrence; the eliminations then read and write the dictionary itself. *)

TwinValues(values, unit) ==
    {v \in {values[unit[i]] : i \in 1..Len(unit)} :
        /\ Cardinality(v) = 2
        /\ Cardinality({i \in 1..Len(unit) : values[unit[i]] = v}) > 1}

FirstOccurrence(values, unit, v) ==
    CHOOSE i \in 1..Len(unit) :
        /\ values[unit[i]] = v
        /\ \A j \in 1..(i - 1) : values[unit[j]] # v

RECURSIVE InOrder(_, _, _)
InOrder(values, unit, S) ==
    IF S = {} THEN <<>>
    ELSE LET v == CHOOSE x \in S : \A y \in S :
                      FirstOccurrence(values, unit, x) <= FirstOccurrence(values, unit, y)
         IN  <<v>> \o InOrder(values, unit, S \ {v})

twins(values, unit) == InOrder(values, unit, TwinValues(values, unit))

(* lines 82-90 for one twin: a box equal to the twin is skipped, any other  *)
(* box of the unit loses the twin's digits.                                *)
EliminateTwin(values, unit, twin) ==
    [b \in DOMAIN values |->
        IF b \in Cells(unit) /\ values[b] # twin
           THEN values[b] \ twin
           ELSE values[b]]

RECURSIVE EliminateTwins(_, _, _)
EliminateTwins(values, unit, ts) ==
    IF ts = <<>> THEN values
    ELSE EliminateTwins(EliminateTwin(values, unit, Head(ts)), unit, Tail(ts))

NakedTwinsUnit(values, unit) == EliminateTwins(values, unit, twins(values, unit))

---------------------------------------------------------------------------
(* reduce_puzzle and the pieces its loop is made of.                        *)

(* a loop that stops after its first round *)
StalledAtOnce(number_solved_before, number_solved_after) ==
    number_solved_before <= number_solved_after

(* a loop that only stops on a fully solved grid *)
StalledWhenSolved(number_solved_before, number_solved_after) ==
    number_solved_after = InputLen

Stalled(number_solved_before, number_solved_after) ==
    number_solved_before = number_solved_after

Contradiction == "Contradiction"

(* reduce_puzzle as a function of the grid it is given: the grid it returns, *)
(* or Contradiction when verify_no_empty_boxes raises.                      *)
RECURSIVE reduce_puzzle(_)
reduce_puzzle(grid_dict) ==
    IF EmptyBoxes(grid_dict) # {} THEN Contradiction
    ELSE LET e == eliminate(grid_dict)
         IN  IF EmptyBoxes(e) # {} THEN Contradiction
             ELSE LET o == only_choice(e)
                  IN  IF EmptyBoxes(o) # {} THEN Contradiction
                      ELSE IF Stalled(NumSolved(grid_dict), NumSolved(o)) THEN o
                      ELSE reduce_puzzle(o)

---------------------------------------------------------------------------
(* search: branch selection and the copy made for a branch.                *)

Unsolved(grid_dict) == {i \in 1..Len(boxes) : Cardinality(grid_dict[boxes[i]]) > 1}

(* min((len(grid_dict[box]), box) ...): fewest candidates, then the least   *)
(* box name, which is the first one in boxes order.                        *)
MinBox(grid_dict) ==
    LET U == Unsolved(grid_dict)
        i == CHOOSE i \in U : \A j \in U :
                 \/ Cardinality(grid_dict[boxes[i]]) < Cardinality(grid_dict[boxes[j]])
                 \/ /\ Cardinality(grid_dict[boxes[i]]) = Cardinality(grid_dict[boxes[j]])
                    /\ i <= j
    IN  boxes[i]

RECURSIVE Ascending(_)
Ascending(S) ==
    IF S = {} THEN <<>>
    ELSE LET m == CHOOSE x \in S : \A y \in S : x <= y
         IN  <<m>> \o Ascending(S \ {m})

(* new_search_values = grid_dict: a second name for the same dictionary    *)
DictAlias(h, r) == [heap |-> h, ref |-> r]

(* grid_dict.copy(): a new dictionary object with the same entries.        *)
DictCopy(h, r) == [heap |-> Append(h, h[r]), ref |-> Len(h) + 1]

---------------------------------------------------------------------------
(* solve: input validation and output.                                     *)

SolveParams == {"sudoku_input", "print_results"}

InClass(ch) == ch = "." \/ InDigits(ch)

(* re.match("[1-9.]{81}", s): the first 81 characters are in the class;     *)
(* re.match anchors at the start only.                                     *)
RegexMatch(s) == Len(s) >= InputLen /\ \A i \in 1..InputLen : InClass(s[i])

(* the assertion compiled away *)
LengthAssertOff(s) == TRUE

(* assert len(grid) == 81 *)
LengthAssert(s) == Len(s) = InputLen

grid_to_output_format(grid_dict) ==
    [i \in 1..Len(boxes) |-> digits[CHOOSE d \in grid_dict[boxes[i]] : TRUE]]

---------------------------------------------------------------------------
(* Inputs.  Solution is one completion of the puzzle of the module          *)
(* docstring; Puzzle(stride, level) blanks 3 * level of its cells, picked  *)
(* by stepping through the string with the given stride.                   *)

MaxLevel == 19
MaxDupCell == 4
MaxBadPos == 2

Solution ==
   <<
      2, 3, 9, 8, 7, 4, 1, 5, 6,
      7, 5, 4, 3, 1, 6, 2, 9, 8,
      6, 8, 1, 9, 5, 2, 3, 7, 4,
      4, 7, 6, 1, 2, 8, 5, 3, 9,
      3, 1, 2, 4, 9, 5, 6, 8, 7,
      5, 9, 8, 6, 3, 7, 4, 1, 2,
      1, 4, 3, 7, 6, 9, 8, 2, 5,
      9, 6, 5, 2, 8, 3, 7, 4, 1,
      8, 2, 7, 5, 4, 1, 9, 6, 3
   >>

SolutionStr == [i \in 1..InputLen |-> digits[Solution[i]]]

Strides == {7, 11}

Puzzle(stride, level) ==
    [i \in 1..InputLen |->
        IF (stride * (i - 1)) % InputLen < 3 * level THEN "." ELSE SolutionStr[i]]

Puzzles == {Puzzle(stride, level) : stride \in Strides, level \in 0..MaxLevel}

Sample == {Puzzle(7, level) : level \in 0..MaxLevel}

RowOf(i) == (i - 1) \div NumDigits

(* a given copied onto another cell of its row *)
WithDuplicate(p, i, j) == [p EXCEPT ![i] = p[j]]

DuplicateInputs ==
    UNION {
        {WithDuplicate(p, i, j) :
            <<i, j>> \in {t \in (1..MaxDupCell) \X (1..InputLen) :
                            t[1] # t[2] /\ RowOf(t[1]) = RowOf(t[2]) /\ p[t[2]] # "."}}
        : p \in Sample}

(* too short, empty, too long, or with a character outside '1'-'9' and '.' *)
MalformedInputs ==
    UNION {
        {SubSeq(p, 1, InputLen - 1), <<>>}
        \cup {Append(p, ch) : ch \in {"1", ".", "x"}}
        \cup {[p EXCEPT ![i] = ch] : i \in (1..MaxBadPos) \cup {InputLen}, ch \in {"0", "x"}}
        : p \in Sample}

Inputs == Puzzles \cup DuplicateInputs \cup MalformedInputs

---------------------------------------------------------------------------
(* State.                                                                  *)

VARIABLES
    input,      \* the sudoku_input argument of solve
    kwargs,     \* the keyword names of the call of solve
    pc,         \* where the running call is
    heap,       \* the dictionary objects, by reference
    stack,      \* the frames of the active calls of search, innermost last
    ret,        \* the value the last search call returned
    outcome,    \* how solve ended
    result,     \* the string solve returned
    twins_unit  \* naked_twins: the index in unit_list of the unit to process next

vars == <<input, kwargs, pc, heap, stack, ret, outcome, result, twins_unit>>

None == 0

NoBox == <<0, 0>>

(* A frame of search: the dictionary its grid_dict names, the loop state of *)
(* reduce_puzzle and of the for loop, and `snap`, the value its dictionary *)
(* had when it last called search (a history field).                       *)
Frame(r, g) ==
    [ref |-> r, number_solved_before |-> 0, min_box |-> NoBox, todo |-> <<>>, snap |-> g]

Top == stack[Len(stack)]

SetTop(f) == [stack EXCEPT ![Len(stack)] = f]

Init ==
    /\ input \in Inputs
    /\ kwargs \in {{"sudoku_input", "print_results"},
                   {"sudoku_input", "print_results", "use_constraint_satisfaction_heuristics"}}
    /\ pc = "start"
    /\ heap = <<>>
    /\ stack = <<>>
    /\ ret = None
    /\ outcome = "running"
    /\ result = <<>>
    /\ twins_unit = 0

(* An exception nobody catches: every frame is unwound and solve ends.     *)
Raise(kind) ==
    /\ pc' = "done"
    /\ outcome' = kind
    /\ stack' = <<>>
    /\ UNCHANGED <<input, kwargs, twins_unit, ret, result>>

(* solve up to the call of search (lines 235-253) *)
Solve ==
    /\ pc = "start"
    /\ IF ~(kwargs \subseteq SolveParams)
          THEN Raise("TypeError") /\ UNCHANGED heap
       ELSE IF ~RegexMatch(input)
          THEN Raise("FormatError") /\ UNCHANGED heap
       ELSE IF ~LengthAssert(input)
          THEN Raise("AssertionError") /\ UNCHANGED heap
       ELSE LET global_grid == sudoku_input_string_to_grid_dict(input)
            IN  /\ heap' = <<global_grid>>
                /\ stack' = <<Frame(1, global_grid)>>
                /\ pc' = "round"
                /\ UNCHANGED <<input, kwargs, twins_unit, ret, outcome, result>>

(* reduce_puzzle, top of the loop (lines 181-186) *)
ReduceBefore ==
    /\ pc = "round"
    /\ LET grid_dict == heap[Top.ref]
       IN  IF EmptyBoxes(grid_dict) # {}
              THEN Raise(Contradiction) /\ UNCHANGED heap
              ELSE /\ stack' = SetTop([Top EXCEPT
                                  !.number_solved_before = NumSolved(grid_dict)])
                   /\ pc' = "eliminate"
                   /\ UNCHANGED <<input, kwargs, twins_unit, heap, ret, outcome, result>>

(* lines 187-188: eliminate works on the dictionary itself *)
ReduceEliminate ==
    /\ pc = "eliminate"
    /\ heap' = [heap EXCEPT ![Top.ref] = eliminate(heap[Top.ref])]
    /\ IF EmptyBoxes(heap'[Top.ref]) # {}
          THEN Raise(Contradiction)
          ELSE /\ pc' = "only_choice"
               /\ UNCHANGED <<input, kwargs, twins_unit, stack, ret, outcome, result>>

(* lines 190-198 *)
ReduceOnlyChoice ==
    /\ pc = "only_choice"
    /\ heap' = [heap EXCEPT ![Top.ref] = only_choice(heap[Top.ref])]
    /\ IF EmptyBoxes(heap'[Top.ref]) # {}
          THEN Raise(Contradiction)
          ELSE /\ pc' = IF Stalled(Top.number_solved_before, NumSolved(heap'[Top.ref]))
                           THEN "check" ELSE "round"
               /\ UNCHANGED <<input, kwargs, twins_unit, stack, ret, outcome, result>>

(* a return of search to its caller *)
Return(value) ==
    /\ ret' = value
    /\ stack' = SubSeq(stack, 1, Len(stack) - 1)
    /\ pc' = "returned"
    /\ UNCHANGED <<input, kwargs, twins_unit, heap, outcome, result>>

(* search after reduce_puzzle returned (lines 203-210) *)
SearchCheck ==
    /\ pc = "check"
    /\ LET grid_dict == heap[Top.ref]
       IN  IF \A i \in 1..Len(boxes) : Cardinality(grid_dict[boxes[i]]) = 1
              THEN Return(Top.ref)
              ELSE LET min_box == MinBox(grid_dict)
                   IN  /\ stack' = SetTop([Top EXCEPT
                                      !.min_box = min_box,
                                      !.todo = Ascending(grid_dict[min_box])])
                       /\ pc' = "branch"
                       /\ UNCHANGED <<input, kwargs, twins_unit, heap, ret, outcome, result>>

(* the head of the for loop and the call of search (lines 211-214) *)
SearchBranch ==
    /\ pc = "branch"
    /\ IF Top.todo = <<>>
          THEN Return(None)
          ELSE LET possibility == Head(Top.todo)
                   c == DictCopy(heap, Top.ref)
                   new_search_values == c.ref
                   h == [c.heap EXCEPT ![new_search_values][Top.min_box] = {possibility}]
               IN  /\ heap' = h
                   /\ stack' = Append(SetTop([Top EXCEPT !.todo = Tail(Top.todo),
                                                         !.snap = heap[Top.ref]]),
                                      Frame(new_search_values, h[new_search_values]))
                   /\ pc' = "round"
                   /\ UNCHANGED <<input, kwargs, twins_unit, ret, outcome, result>>

(* the recursive call returned to search (lines 214-216) *)
SearchReturn ==
    /\ pc = "returned"
    /\ stack # <<>>
    /\ IF ret # None
          THEN Return(ret)
          ELSE /\ pc' = "branch"
               /\ UNCHANGED <<input, kwargs, twins_unit, heap, stack, ret, outcome, result>>

(* search returned to solve, which drops the value and formats global_grid *)
(* (lines 253-258) *)
SolveReturn ==
    /\ pc = "returned"
    /\ stack = <<>>
    /\ LET global_grid == heap[1]
       IN  IF ~grid_is_solved(global_grid)
              THEN /\ outcome' = "NotSolved"
                   /\ result' = result
              ELSE /\ outcome' = "Returned"
                   /\ result' = grid_to_output_format(global_grid)
    /\ pc' = "done"
    /\ UNCHANGED <<input, kwargs, twins_unit, heap, stack, ret>>

Next ==
    \/ Solve
    \/ ReduceBefore
    \/ ReduceEliminate
    \/ ReduceOnlyChoice
    \/ SearchCheck
    \/ SearchBranch
    \/ SearchReturn
    \/ SolveReturn

Spec == Init /\ [][Next]_vars

FairSpec == Spec /\ WF_vars(Next)

---------------------------------------------------------------------------
(* naked_twins on its own: the dictionary of an empty puzzle with the      *)
(* first MaxTwinCells boxes of row A set to values out of TwinChoices.     *)

MaxTwinCells == 4

TwinChoices == {{1, 2}, {2, 3}, {3, 4}, {1, 2, 3, 4}}

TwinGrids ==
    {[b \in BoxSet |->
         IF b[1] = 1 /\ b[2] <= MaxTwinCells THEN f[b[2]] ELSE 1..NumDigits] :
        f \in [1..MaxTwinCells -> TwinChoices]}

InitTwins ==
    /\ input = <<>>
    /\ kwargs = {"values"}
    /\ pc = "naked_twins"
    /\ heap \in {<<g>> : g \in TwinGrids}
    /\ stack = <<>>
    /\ ret = None
    /\ outcome = "running"
    /\ result = <<>>
    /\ twins_unit = 1

(* one iteration of `for unit in unit_list` (lines 75-90) *)
NakedTwinsStep ==
    /\ pc = "naked_twins"
    /\ twins_unit <= Len(unit_list)
    /\ heap' = [heap EXCEPT ![1] = NakedTwinsUnit(heap[1], unit_list[twins_unit])]
    /\ twins_unit' = twins_unit + 1
    /\ UNCHANGED <<input, kwargs, pc, stack, ret, outcome, result>>

(* return values (line 91) *)
NakedTwinsReturn ==
    /\ pc = "naked_twins"
    /\ twins_unit > Len(unit_list)
    /\ pc' = "done"
    /\ ret' = 1
    /\ outcome' = "Returned"
    /\ UNCHANGED <<input, kwargs, heap, stack, result, twins_unit>>

NextTwins == NakedTwinsStep \/ NakedTwinsReturn

SpecTwins == InitTwins /\ [][NextTwins]_vars

---------------------------------------------------------------------------
(* Properties.                                                             *)

DigitChars == {digits[d] : d \in 1..NumDigits}

WellFormed(s) == Len(s) = InputLen /\ \A i \in 1..InputLen : InClass(s[i])

DefaultCall == kwargs \subseteq SolveParams

(* every unit of the 81-character string s is a permutation of '1'..'9' *)
ValidString(s) ==
    /\ Len(s) = InputLen
    /\ \A u \in 1..Len(unit_list) :
           {s[IndexOf(b)] : b \in Cells(unit_list[u])} = DigitChars

(* every unit of the grid holds each digit exactly once *)
ValidGrid(grid_dict) ==
    /\ grid_is_solved(grid_dict)
    /\ \A u \in 1..Len(unit_list) :
           UNION {grid_dict[b] : b \in Cells(unit_list[u])} = 1..NumDigits

Completes(sol, s) ==
    /\ ValidString(sol)
    /\ \A i \in 1..InputLen : s[i] # "." => sol[i] = s[i]

(* two givens of the same digit in one row *)
RowDuplicate(s) ==
    \E i, j \in 1..InputLen :
        i # j /\ RowOf(i) = RowOf(j) /\ s[i] # "." /\ s[i] = s[j]

(* the givens alone leave one digit for every blank cell *)
ForcedByGivens(s) ==
    \A i \in 1..InputLen :
        s[i] = "." =>
            Cardinality(DigitChars \ {s[IndexOf(p)] : p \in peers[boxes[i]]}) = 1

(* C1: on a well-formed input that has a completion, solve returns 81      *)
(* digits that agree with the input at every given position, also when    *)
(* propagation stalls and search has to branch.                            *)
C1_SolvesEverySolvable ==
    (pc = "done" /\ DefaultCall /\ WellFormed(input) /\ Completes(SolutionStr, input))
        => /\ outcome = "Returned"
           /\ Len(result) = InputLen
           /\ \A i \in 1..InputLen :
                  /\ result[i] \in DigitChars
                  /\ input[i] # "." => result[i] = input[i]

(* C2: a string returned by solve, and a grid returned by search, has each *)
(* digit exactly once in every row, column and box unit.                   *)
C2_ResultUnitsArePermutations ==
    /\ (pc = "done" /\ outcome = "Returned") => ValidString(result)
    /\ (pc = "returned" /\ ret # None) => ValidGrid(heap[ret])

C2_Witness ==
    /\ pc = "done"
    /\ outcome = "Returned"
    /\ Cardinality({i \in 1..InputLen : input[i] = "."}) > InputLen \div 2

(* C3: for a puzzle with a unique solution, the call of solve with          *)
(* propagation and the call with propagation switched off both return that *)
(* solution.                                                               *)
C3_ModeEquivalence ==
    (pc = "done" /\ WellFormed(input) /\ Completes(SolutionStr, input)
                 /\ ForcedByGivens(input))
        => (outcome = "Returned" /\ result = SolutionStr)

C5_DuplicateGivensRejected ==
    (pc = "done" /\ DefaultCall /\ WellFormed(input) /\ RowDuplicate(input))
        => (outcome = Contradiction /\ result = <<>>)

C5_Witness ==
    /\ pc = "done"
    /\ DefaultCall
    /\ WellFormed(input)
    /\ RowDuplicate(input)
    /\ outcome = Contradiction
    /\ \E i \in 1..InputLen : input[i] = "."

(* C6: when propagation inside a recursive call of search empties a cell,   *)
(* that call returns failure to its caller, which goes on with its next    *)
(* candidate: the solve is not aborted.                                    *)
C6_ContradictionBacktracks ==
    [][(/\ pc \in {"round", "eliminate", "only_choice"}
        /\ Len(stack) > 1
        /\ EmptyBoxes(heap'[Top.ref]) # {})
          => (/\ pc' = "returned"
              /\ ret' = None
              /\ stack' = SubSeq(stack, 1, Len(stack) - 1))]_vars

(* C7: a grid returned by reduce_puzzle is a fixed point: reduce_puzzle,   *)
(* eliminate and only_choice all leave every candidate set of it unchanged. *)
C7_ReduceIdempotent ==
    pc = "check" =>
        LET g == heap[Top.ref]
        IN  /\ reduce_puzzle(g) = g
            /\ eliminate(g) = g
            /\ only_choice(g) = g

C7_Witness ==
    /\ pc = "check"
    /\ ~grid_is_solved(heap[Top.ref])
    /\ NumSolved(heap[Top.ref]) > NumSolved(Top.snap)

(* C8: processing a unit removes the digits of every twin pair the unit    *)
(* held at the start from the other cells of the unit and leaves the twin  *)
(* cells with their two digits, also with several twin pairs in the unit.  *)
C8_TwinsFromOneSnapshot ==
    [][(pc = "naked_twins" /\ twins_unit <= Len(unit_list)) =>
          LET unit == unit_list[twins_unit]
              before == heap[1]
              after == heap'[1]
          IN  \A i, j \in 1..Len(unit) :
                  (/\ i # j
                   /\ Cardinality(before[unit[i]]) = 2
                   /\ before[unit[i]] = before[unit[j]])
                     => /\ after[unit[i]] = before[unit[i]]
                        /\ after[unit[j]] = before[unit[j]]
                        /\ \A k \in 1..Len(unit) :
                               before[unit[k]] # before[unit[i]]
                                   => after[unit[k]] \cap before[unit[i]] = {}]_vars

(* C9: the dictionary of every suspended caller of search still has the    *)
(* value it had when the caller made its recursive call, and no two active *)
(* calls work on the same dictionary.                                      *)
C9_BranchIsolation ==
    /\ \A k \in 1..(Len(stack) - 1) : heap[stack[k].ref] = stack[k].snap
    /\ \A k, l \in 1..Len(stack) : k # l => stack[k].ref # stack[l].ref
    /\ (pc = "returned" /\ stack # <<>>) => heap[Top.ref] = Top.snap

C9_Witness ==
    /\ pc = "returned"
    /\ stack # <<>>
    /\ ret # None
    /\ heap[ret] # heap[Top.ref]
    /\ heap[Top.ref] = Top.snap

(* C10: solve terminates; a round of reduce_puzzle that does not stall      *)
(* ends with more solved cells than it began with, and a recursive call of *)
(* search is given a grid with more solved cells than its caller's.        *)
RoundProgress ==
    (pc = "only_choice" /\ pc' = "round")
        => NumSolved(heap'[Top.ref]) > Top.number_solved_before

CallProgress ==
    (pc = "branch" /\ pc' = "round")
        => NumSolved(heap'[stack'[Len(stack')].ref]) > NumSolved(heap[Top.ref])

C10_Termination ==
    /\ <>(pc = "done")
    /\ [][RoundProgress /\ CallProgress]_vars

C10_Witness ==
    /\ pc = "done"
    /\ Len(heap) > 2
    /\ outcome = "NotSolved"

=============================================================================
